---- MODULE Spec2Model ----
(***************************************************************************)
(* Model of the HumanEval analysis toolkit: the function resolver and the  *)
(* test executor of Task3/test_runner.py (run_tests_and_report) and        *)
(* Task2/test_runner_notebook.py (run_tests), the alias writer of          *)
(* code_enhancer.py and the resolver / statistics of                       *)
(* pytest_cov_enhanced_analyzer.py.                                        *)
(*                                                                         *)
(* Text is a sequence of tokens (each token a string): a test case such as *)
(* "candidate(3) == 9" is <<"candidate","(","3",")"," ","==", " ","9">>.   *)
(* Python indices are 0-based; the k-th element of a Python list is        *)
(* element k+1 of the sequence that models it.                             *)
(***************************************************************************)
EXTENDS Integers, Sequences, FiniteSets, TLC

VARIABLES
    runner,     \* which entry point runs: "report" = run_tests_and_report, "notebook" = run_tests
    module,     \* the code file: [loads |-> BOOLEAN, decls |-> names of its top-level defs, in order]
    tests,      \* test_cases, the list of test strings
    pc,         \* position in the entry point: "load", "loop", "done" (returned), "raised" (exception left it)
    candidate,  \* the local variable candidate: a function name, or "None"
    i,          \* index of the next test case of the for loop
    passed,     \* the list passed
    failed,     \* the list failed, of <<index, reason>>
    shown,      \* the PASSED lines printed, as <<index, expected text>> (<<>> when none is printed)
    result,     \* the returned dictionary, NoResult before the return
    context,    \* the globals dictionary of the latest exec, as the test left it
    run,          \* the caller: the number of the call of the runner (1 or 2)
    first_result, \* the caller: what the first call returned, NoResult before the second
    reported,     \* the caller: how print_detailed_report(result) ended, "no" before it
    source,       \* CodeEnhancer: the content of the file at source_path
    problem_id,   \* the problem id of the file being enhanced or analysed
    target,       \* CodeEnhancer: the content of the file at target_path, NoFile before it is written
    was_enhanced, \* CodeEnhancer: what enhance_file returned: "pending", "True" or "False"
    solution,     \* PytestCovAnalyzer: the content of the solution file analysed last
    generated,    \* PytestCovAnalyzer: the names the generated pytest module binds
    all_results,  \* PytestCovAnalyzer: the list all_results of CoverageResult
    next_problem, \* PytestCovAnalyzer: position of analyze_all_solutions in the sorted problems
    stats,        \* main of the analyzer: the overall statistics, once computed
    ended,        \* PytestCovAnalyzer: how the latest run of pytest ended, "" before it
    llm_implementation, \* PytestCovAnalyzer: the argument llm_implementation of the call
    temp_dir,           \* PytestCovAnalyzer: the directory mkdtemp made for the call
    html_written,       \* PytestCovAnalyzer: whether pytest wrote its HTML report
    source_dir,      \* the directories: the files of source_dir, by problem id
    target_dir,      \* the directories: target_dir, absent or its files by name
    html_output_dir, \* the directories: html_output_dir, absent or its entries
    dir_runs,        \* the directories: how often each operation has run
    enhancements_made, \* CodeEnhancer: the list self.enhancements_made, of problem ids
    summary,           \* CodeEnhancer: what the latest enhance_all_codes printed and returned
    test_string,  \* normalization: a test string as the catalogue gives it
    normal_form,  \* normalization: the test code made of test_string
    renormalized  \* normalization: the test code made of normal_form

runnerVars ==
    <<runner, module, tests, pc, candidate, i, passed, failed, shown, result, context>>
callerVars == <<run, first_result, reported>>
enhancerVars == <<source, target, was_enhanced>>
tempVars == <<llm_implementation, temp_dir, html_written>>
analyzerVars ==
    <<solution, generated, all_results, next_problem, stats, ended, tempVars>>
instanceVars == <<enhancements_made, summary>>
dirVars == <<source_dir, target_dir, html_output_dir, dir_runs, instanceVars>>
normVars == <<test_string, normal_form, renormalized>>

vars ==
    <<runnerVars, callerVars, enhancerVars, analyzerVars, dirVars, normVars, problem_id>>

----------------------------------------------------------------------------
(* Bounds of the model *)

MaxDecls == 2       \* top-level function definitions per code file
MaxTests == 2       \* test cases per run
MaxTokens == 3      \* tokens of a test string that is normalized
MaxRuns == 2        \* runs of an operation on the same output directory

----------------------------------------------------------------------------
(* Sequences *)

Range(s) == {s[k] : k \in 1..Len(s)}

SeqsUpTo(S, n) == UNION {[1..k -> S] : k \in 0..n}

DistinctSeqsUpTo(S, n) ==
    {s \in SeqsUpTo(S, n) : \A a, b \in 1..Len(s) : a # b => s[a] # s[b]}

\* the least element of a non-empty set of integers
Min(S) == CHOOSE x \in S : \A y \in S : x <= y

----------------------------------------------------------------------------
(* Python values and exceptions *)

\* An int n is IntV(n); the tuple (a, b) is TupleV(<<a, b>>).
IntV(n) == [tag |-> "int", items |-> <<n>>]
TupleV(ns) == [tag |-> "tuple", items |-> ns]

\* The outcome of evaluating something: a value, or a raised exception.
Returned(v) == [raised |-> FALSE, type |-> "", msg |-> "", value |-> v]
Raised(t, m) == [raised |-> TRUE, type |-> t, msg |-> m, value |-> IntV(0)]

\* The exception classes that derive from Exception, which "except Exception"
\* catches; SystemExit derives from BaseException only.
ExceptionTypes ==
    {"AssertionError", "ZeroDivisionError", "TypeError", "SyntaxError",
     "ValueError", "FileNotFoundError"}

IsException(o) == o.raised /\ o.type \in ExceptionTypes
IsAssertionError(o) == o.raised /\ o.type = "AssertionError"

\* repr(v), as text: "9" for an int, "(1, 2)" for a tuple of two
Repr(v) ==
    IF v.tag = "int" THEN <<ToString(v.items[1])>>
    ELSE <<"(">> \o [k \in 1..Len(v.items) |-> ToString(v.items[k])] \o <<")">>

----------------------------------------------------------------------------
(* The code files under test *)

\* The function names a code file may define at top level.
Names == {"candidate", "foo", "bar", "_helper", "main"}

\* The code point of the first character of a name: the names differ in it,
\* so it decides the order of sorted().
Ord(name) ==
    CASE name = "_helper"   -> 95
      [] name = "bar"       -> 98
      [] name = "candidate" -> 99
      [] name = "foo"       -> 102
      [] name = "main"      -> 109
      [] name = "skjkasdkd" -> 115
      [] OTHER              -> 0

\* name.startswith('_')
StartsWithUnderscore(name) == Ord(name) = 95

\* What the function of each name does when called with the arguments args
\* (a sequence of values):
\*   candidate(x) = x * x             foo(x) = 12 // x
\*   bar(a, b) = a + b                _helper(x) = x
\*   main(*args): sys.exit()
\* and calling None, or a function with the wrong number or type of
\* arguments, raises TypeError.
Call(f, args) ==
    CASE f = "None" -> Raised("TypeError", "'NoneType' object is not callable")
      [] f = "main" -> Raised("SystemExit", "")
      [] f = "bar" ->
            IF Len(args) # 2
            THEN Raised("TypeError", "missing or unexpected positional argument")
            ELSE IF args[1].tag = "int" /\ args[2].tag = "int"
                 THEN Returned(IntV(args[1].items[1] + args[2].items[1]))
                 ELSE Raised("TypeError", "unsupported operand type(s)")
      [] OTHER ->
            IF Len(args) # 1
            THEN Raised("TypeError", "missing or unexpected positional argument")
            ELSE IF f = "_helper" THEN Returned(args[1])
            ELSE IF args[1].tag # "int"
                 THEN Raised("TypeError", "unsupported operand type(s)")
            ELSE IF f = "candidate"
                 THEN Returned(IntV(args[1].items[1] * args[1].items[1]))
            ELSE IF args[1].items[1] = 0
                 THEN Raised("ZeroDivisionError", "integer division or modulo by zero")
                 ELSE Returned(IntV(12 \div args[1].items[1]))

\* The code files: one that cannot be loaded (missing, or a syntax error),
\* and the loadable files with up to MaxDecls distinct top-level functions.
BrokenModule == [loads |-> FALSE, decls |-> <<>>]

Modules ==
    {BrokenModule} \cup
    {[loads |-> TRUE, decls |-> d] : d \in DistinctSeqsUpTo(Names, MaxDecls)}

----------------------------------------------------------------------------
(* The text of code files, as code_enhancer.py and the analyzer read it *)

\* The words a file may mention outside of a definition (in a comment or a
\* string), and the function names it may define.
Words == {"candidate", "skjkasdkd"}
FileNames == {"candidate", "foo", "bar", "_helper", "skjkasdkd"}

\* A file: whether ast.parse accepts it, the names of its function
\* definitions in order, the words it mentions elsewhere, and the alias
\* lines "alias = primary" at its end, as <<alias, primary>>.
NoFile == [exists |-> FALSE]

File(parses, decls, text, aliases) ==
    [exists |-> TRUE, parses |-> parses, decls |-> decls, text |-> text,
     aliases |-> aliases]

\* The solution files as the benchmark runs wrote them
SourceFiles ==
    {File(p, d, t, <<>>) :
        p \in BOOLEAN, d \in DistinctSeqsUpTo(FileNames, MaxDecls), t \in SUBSET Words}

ProblemIds == {"HumanEval/94", "HumanEval/1"}

\* word in content: the word occurs somewhere in the text of the file
InContent(word, content) ==
    \/ word \in content.text
    \/ word \in Range(content.decls)
    \/ \E k \in 1..Len(content.aliases) : word \in Range(content.aliases[k])

\* The function a name is bound to once the file has been executed: the
\* last alias line of that name decides, then its def; "None" if unbound.
Binding(content, name) ==
    LET lines == {k \in 1..Len(content.aliases) : content.aliases[k][1] = name}
    IN  IF lines # {}
        THEN content.aliases[CHOOSE k \in lines : \A j \in lines : j <= k][2]
        ELSE IF name \in Range(content.decls) THEN name ELSE "None"

\* ast.walk(tree) filtered to FunctionDef nodes: breadth first, so the
\* top-level definitions come first, in the order they are written.
FunctionDefs(content) == content.decls

\* sum(xs)
RECURSIVE Sum(_)
Sum(xs) == IF xs = <<>> THEN 0 ELSE Head(xs) + Sum(Tail(xs))

----------------------------------------------------------------------------
(* Test strings *)

Numerals == {"0", "1", "2", "3", "4", "9", "10"}

\* int(text) of a numeral
NumeralValue(t) ==
    CASE t = "0" -> 0 [] t = "1" -> 1 [] t = "2" -> 2 [] t = "3" -> 3
      [] t = "4" -> 4 [] t = "9" -> 9 [] t = "10" -> 10 [] OTHER -> 0

\* The test strings of the model's catalogue:
\*   "candidate(3) == 9"            "assert candidate(3) == 10"
\*   "candidate(0) == 0"            "candidate(1, 2) == 4"
\*   " not candidate(3) "           "1 == 1"
TestStrings ==
    { <<"candidate", "(", "3", ")", " ", "==", " ", "9">>,
      <<"assert", " ", "candidate", "(", "3", ")", " ", "==", " ", "10">>,
      <<"candidate", "(", "0", ")", " ", "==", " ", "0">>,
      <<"candidate", "(", "1", ",", " ", "2", ")", " ", "==", " ", "4">>,
      <<" ", "not", " ", "candidate", "(", "3", ")", " ">>,
      <<"1", " ", "==", " ", "1">> }

TestLists == SeqsUpTo(TestStrings, MaxTests)

\* s.strip(): s without its leading and trailing whitespace
Strip(s) ==
    LET keep == {k \in 1..Len(s) : s[k] # " "}
    IN  IF keep = {} THEN <<>>
        ELSE SubSeq(s, Min(keep), CHOOSE k \in keep : \A j \in keep : j <= k)

\* s.startswith('assert')
StartsWithAssert(s) == Len(s) > 0 /\ s[1] = "assert"

\* TestCode without the call of strip
TestCode_NoStrip(test_case) ==
    IF ~StartsWithAssert(test_case)
    THEN <<"assert", " ">> \o test_case
    ELSE test_case

\* The test code that is executed for a test case: trimmed, and made an
\* assert statement when it is not one.
TestCode(test_case) ==
    LET test_code == Strip(test_case)
    IN  IF ~StartsWithAssert(test_code)
        THEN <<"assert", " ">> \o test_code
        ELSE test_code

\* s without its whitespace: the tokens Python's parser sees
Tokens(s) == SelectSeq(s, LAMBDA t : t # " ")

\* ts is a comma separated list of numerals, possibly empty
IsArgList(ts) ==
    \/ ts = <<>>
    \/ /\ Len(ts) % 2 = 1
       /\ \A k \in 1..Len(ts) :
            IF k % 2 = 1 THEN ts[k] \in Numerals ELSE ts[k] = ","

\* the values of a comma separated list of numerals
ArgValues(ts) == [k \in 1..((Len(ts) + 1) \div 2) |-> IntV(NumeralValue(ts[2 * k - 1]))]

\* ts is an operand of the test expressions: a numeral, or candidate(args)
IsOperand(ts) ==
    \/ Len(ts) = 1 /\ ts[1] \in Numerals
    \/ /\ Len(ts) >= 3
       /\ ts[1] = "candidate" /\ ts[2] = "(" /\ ts[Len(ts)] = ")"
       /\ IsArgList(SubSeq(ts, 3, Len(ts) - 1))

\* Evaluating an operand with the name candidate bound to cand
EvalOperand(ts, cand) ==
    IF Len(ts) = 1 THEN Returned(IntV(NumeralValue(ts[1])))
    ELSE Call(cand, ArgValues(SubSeq(ts, 3, Len(ts) - 1)))

\* bool(v)
Truthy(v) == IF v.tag = "int" THEN v.items[1] # 0 ELSE Len(v.items) > 0

\* The test string "(candidate := None) is None": an assignment expression,
\* which rebinds the name candidate in the globals of the exec that runs it.
RebindingTest == <<"(", "candidate", ":=", "None", ")", " ", "is", " ", "None">>

\* ts are the tokens of the statement  assert (candidate := None) is None
IsRebinding(ts) ==
    ts = <<"assert", "(", "candidate", ":=", "None", ")", "is", "None">>

\* The globals dictionary {'candidate': cand} after exec(test_code, ...) has
\* run in it: the assignment expression has rebound candidate, any other
\* statement of the catalogue binds nothing.
GlobalsAfter(test_code, cand) ==
    [exists |-> TRUE,
     candidate |-> IF IsRebinding(Tokens(test_code)) THEN "None" ELSE cand]

\* exec(test_code, {'candidate': cand}) for the statements
\*     assert [not] operand [== operand]
\*     assert (candidate := None) is None
\* and SyntaxError for any other text: the outcome of the statement.
Exec(test_code, cand) ==
    LET ts   == Tokens(test_code)
        body == IF Len(ts) > 0 THEN Tail(ts) ELSE <<>>
        neg  == Len(body) > 0 /\ body[1] = "not"
        expr == IF neg THEN Tail(body) ELSE body
        eqs  == {k \in 1..Len(expr) : expr[k] = "=="}
        lhs  == IF eqs = {} THEN expr ELSE SubSeq(expr, 1, Min(eqs) - 1)
        rhs  == IF eqs = {} THEN <<>> ELSE SubSeq(expr, Min(eqs) + 1, Len(expr))
    IN  IF IsRebinding(ts) THEN Returned(IntV(0))
        ELSE IF \/ Len(ts) = 0 \/ ts[1] # "assert"
                \/ ~IsOperand(lhs)
                \/ eqs # {} /\ ~IsOperand(rhs)
        THEN Raised("SyntaxError", "invalid syntax")
        ELSE LET l == EvalOperand(lhs, cand)
                 r == IF eqs = {} THEN l ELSE EvalOperand(rhs, cand)
                 holds == IF eqs = {} THEN Truthy(l.value) ELSE l.value = r.value
             IN  IF l.raised THEN l
                 ELSE IF r.raised THEN r
                 ELSE IF holds # neg THEN Returned(IntV(0))
                 ELSE Raised("AssertionError", "")

\* eval(input_val): a numeral, or a tuple of numerals
Eval(input_val) ==
    LET ts == Tokens(input_val)
    IN  IF ts = <<>> \/ ~IsArgList(ts) THEN Raised("SyntaxError", "invalid syntax")
        ELSE IF Len(ts) = 1 THEN Returned(IntV(NumeralValue(ts[1])))
        ELSE Returned(TupleV([k \in 1..((Len(ts) + 1) \div 2) |-> NumeralValue(ts[2 * k - 1])]))

\* re.search(r"candidate\((.*?)\)\s*==\s*(.+)", test_code): the leftmost
\* "candidate(", then the shortest text up to a ")" that is followed by
\* optional whitespace, "==" and at least one more character; group 2 starts
\* after the whitespace that follows "==" (at the last character when only
\* whitespace follows) and runs to the end of the text.
\* [matched, group1, group2]
ReSearch(s) ==
    LET \* the position of "==" when s[q] is ")" followed by \s*==(.+)
        EqAfter(q) ==
            {e \in (q + 1)..(Len(s) - 1) :
                /\ s[e] = "=="
                /\ \A k \in (q + 1)..(e - 1) : s[k] = " "}
        Closes(p) == {q \in (p + 2)..Len(s) : s[q] = ")" /\ EqAfter(q) # {}}
        starts == {p \in 1..(Len(s) - 1) :
                     s[p] = "candidate" /\ s[p + 1] = "(" /\ Closes(p) # {}}
    IN  IF starts = {} THEN [matched |-> FALSE, group1 |-> <<>>, group2 |-> <<>>]
        ELSE LET p == Min(starts)
                 q == Min(Closes(p))
                 e == Min(EqAfter(q))
                 black == {k \in (e + 1)..Len(s) : s[k] # " "}
                 g == IF black = {} THEN Len(s) ELSE Min(black)
             IN  [matched |-> TRUE,
                  group1  |-> SubSeq(s, p + 2, q - 1),
                  group2  |-> SubSeq(s, g, Len(s))]

----------------------------------------------------------------------------
(* Resolving the function under test *)

\* sorted(names): the names in increasing order
Sorted(S) ==
    [k \in 1..Cardinality(S) |->
        CHOOSE n \in S : Cardinality({m \in S : Ord(m) < Ord(n)}) = k - 1]

\* dir(module): the names of the module's attributes, sorted. The dunder
\* attributes every module has start with '_' and are never chosen.
Dir(m) == Sorted(Range(m.decls))

\* hasattr(module, 'candidate')
HasCandidate(m) == "candidate" \in Range(m.decls)

\* The for loop over names: the first name that does not start with '_'
\* (every attribute of the model's modules is callable), "None" if there is none.
FirstPublic(names) ==
    LET ok == {k \in 1..Len(names) : ~StartsWithUnderscore(names[k])}
    IN  IF ok = {} THEN "None" ELSE names[Min(ok)]

\* ResolveCandidate scanning the names in an order that differs from one
\* call to the next (as the iteration order of a set of strings does)
ResolveCandidate_Unstable(m) ==
    LET names == Dir(m)
        reversed == [k \in 1..Len(names) |-> names[Len(names) + 1 - k]]
    IN  IF HasCandidate(m) THEN "candidate"
        ELSE IF run = 1 THEN FirstPublic(names)
        ELSE FirstPublic(reversed)

\* The function run_tests_and_report and run_tests bind to candidate.
ResolveCandidate(m) ==
    IF HasCandidate(m) THEN "candidate" ELSE FirstPublic(Dir(m))

----------------------------------------------------------------------------
(* The returned dictionaries *)

NoResult == [returned |-> FALSE]

\* str(e)
Str(o) == IF o.msg = "" THEN <<>> ELSE <<o.msg>>

\* A float that is the quotient num / den
Quotient(num, den) == [num |-> num, den |-> den]

\* (len(passed) / len(test_cases)) * 100 if test_cases else 0
PassRate(p, ts) ==
    IF Len(ts) # 0 THEN Quotient(Len(p) * 100, Len(ts)) ELSE Quotient(0, 1)

\* LoadFailureResult with the indices taken 1-based: range(1, len(test_cases))
LoadFailureResult_OffByOne(e, ts) ==
    [returned  |-> TRUE,
     passed    |-> <<>>,
     failed    |-> [k \in 1..(Len(ts) - 1) |-> <<k, Str(e)>>],
     total     |-> Len(ts),
     pass_rate |-> Quotient(0, 1)]

\* The dictionary run_tests_and_report returns when loading fails with e
LoadFailureResult(e, ts) ==
    [returned  |-> TRUE,
     passed    |-> <<>>,
     failed    |-> [k \in 1..Len(ts) |-> <<k - 1, Str(e)>>],
     total     |-> Len(ts),
     pass_rate |-> Quotient(0, 1)]

\* The dictionary run_tests_and_report returns after the loop
ReportResult(p, f, ts) ==
    [returned     |-> TRUE,
     passed       |-> p,
     failed       |-> f,
     total        |-> Len(ts),
     pass_rate    |-> PassRate(p, ts),
     passed_tests |-> [k \in 1..Len(p) |-> ts[p[k] + 1]],
     failed_tests |-> [k \in 1..Len(f) |-> <<ts[f[k][1] + 1], f[k][2]>>]]

\* The dictionary run_tests returns
NotebookResult(p, f, ts) ==
    [returned     |-> TRUE,
     passed       |-> p,
     failed       |-> f,
     total        |-> Len(ts),
     pass_rate    |-> PassRate(p, ts),
     passed_count |-> Len(p),
     failed_count |-> Len(f),
     failed_tests |-> [k \in 1..Len(f) |-> <<f[k][1], ts[f[k][1] + 1], f[k][2]>>]]

----------------------------------------------------------------------------
(* One iteration of the test loop *)

\* What one iteration does: kind "passed" (append to passed, print line),
\* "failed" (append reason to failed) or "propagated" (an exception that no
\* except clause of the loop body catches leaves the function).
Passes(line) == [kind |-> "passed", reason |-> <<>>, line |-> line]
Fails(reason) == [kind |-> "failed", reason |-> reason, line |-> <<>>]
Propagates == [kind |-> "propagated", reason |-> <<>>, line |-> <<>>]

\* AssertionReason without its inner try: an exception of the second call
\* reaches "except Exception" of the loop body.
AssertionReason_NoInnerTry(test_code, cand) ==
    LET match == ReSearch(test_code)
        arg == Eval(match.group1)
        actual == IF arg.raised THEN arg ELSE Call(cand, <<arg.value>>)
    IN  IF ~match.matched THEN Fails(<<"Assertion failed">>)
        ELSE IF IsException(actual)
             THEN Fails(<<"Error: ", actual.type, ": ">> \o Str(actual))
        ELSE IF actual.raised THEN Propagates
        ELSE Fails(<<"Expected: ">> \o Strip(match.group2) \o <<", Got: ">>
                   \o Repr(actual.value))

\* The handler of AssertionError in run_tests_and_report: the reason recorded.
AssertionReason(test_code, cand) ==
    LET match == ReSearch(test_code)
        input_val == match.group1
        expected == Strip(match.group2)
        arg == Eval(input_val)
        actual == IF arg.raised THEN arg ELSE Call(cand, <<arg.value>>)
    IN  IF ~match.matched THEN Fails(<<"Assertion failed">>)
        ELSE IF IsException(actual) THEN Fails(<<"Assertion failed: ">> \o Str(actual))
        ELSE IF actual.raised THEN Propagates
        ELSE Fails(<<"Expected: ">> \o expected \o <<", Got: ">> \o Repr(actual.value))

\* PassedLine reporting group 1 (the arguments) as the expected value
PassedLine_WrongGroup(test_code) ==
    LET match == ReSearch(test_code)
    IN  IF match.matched
        THEN <<"PASSED - Expected: ">> \o Strip(match.group1)
        ELSE <<"PASSED">>

\* The line printed for a passed test
PassedLine(test_code) ==
    LET match == ReSearch(test_code)
    IN  IF match.matched
        THEN <<"PASSED - Expected: ">> \o Strip(match.group2)
        ELSE <<"PASSED">>

\* ReportIteration with "except Exception" before "except AssertionError",
\* recording the message alone: every raised exception is an assertion failure.
ReportIteration_OneHandler(test_case, cand) ==
    LET test_code == TestCode(test_case)
        o == Exec(test_code, cand)
    IN  IF ~o.raised THEN Passes(PassedLine(test_code))
        ELSE IF IsException(o) THEN AssertionReason(test_code, cand)
        ELSE Propagates

\* The body of the for loop of run_tests_and_report
ReportIteration(test_case, cand) ==
    LET test_code == TestCode(test_case)
        o == Exec(test_code, cand)
    IN  IF ~o.raised THEN Passes(PassedLine(test_code))
        ELSE IF IsAssertionError(o) THEN AssertionReason(test_code, cand)
        ELSE IF IsException(o)
             THEN Fails(<<"Error: ", o.type, ": ">> \o Str(o))
        ELSE Propagates

\* The body of the for loop of run_tests
NotebookIteration(test_case, cand) ==
    LET test_code == TestCode(test_case)
        o == Exec(test_code, cand)
    IN  IF ~o.raised THEN Passes(<<>>)
        ELSE IF IsException(o) THEN Fails(Str(o))
        ELSE Propagates

----------------------------------------------------------------------------
(* The entry points run_tests_and_report and run_tests *)

\* No exec has run yet, no directory exists, no text has been made
NoContext == [exists |-> FALSE]
NoDir == [exists |-> FALSE]

\* A directory of code files, and a directory of reports
CodeDir(files) == [exists |-> TRUE, files |-> files]
ReportDir(entries) == [exists |-> TRUE, entries |-> entries]
NoText == <<"pending">>

\* What the variables of the other components hold while one runs
RunnerIdle ==
    /\ runner = "report" /\ module = BrokenModule /\ tests = <<>>
    /\ pc = "idle" /\ candidate = "None" /\ i = 0
    /\ passed = <<>> /\ failed = <<>> /\ shown = <<>> /\ result = NoResult
    /\ context = NoContext

CallerIdle == run = 1 /\ first_result = NoResult /\ reported = "no"

DirsIdle ==
    /\ source_dir = NoDir /\ target_dir = NoDir /\ html_output_dir = NoDir
    /\ dir_runs = [enhance |-> 0, construct |-> 0]
    /\ enhancements_made = <<>> /\ summary = [made |-> FALSE]

NormIdle == test_string = <<>> /\ normal_form = NoText /\ renormalized = NoText

EnhancerIdle ==
    source = NoFile /\ target = NoFile /\ was_enhanced = "pending"

AnalyzerIdle ==
    /\ solution = NoFile /\ generated = [created |-> FALSE]
    /\ all_results = <<>> /\ next_problem = 1 /\ stats = [computed |-> FALSE]
    /\ ended = ""
    /\ llm_implementation = "" /\ temp_dir = NoDir /\ html_written = FALSE

Init ==
    /\ EnhancerIdle /\ AnalyzerIdle /\ problem_id = ""
    /\ CallerIdle /\ DirsIdle /\ NormIdle
    /\ runner \in {"report", "notebook"}
    /\ module \in Modules
    /\ tests \in TestLists
    /\ pc = "load"
    /\ candidate = "None"
    /\ i = 0
    /\ passed = <<>>
    /\ failed = <<>>
    /\ shown = <<>>
    /\ result = NoResult
    /\ context = NoContext

\* run_tests_and_report up to its loop: load the module and resolve the
\* function; any exception returns the record with every test failed.
LoadReport ==
    /\ pc = "load" /\ runner = "report"
    /\ LET e == IF ~module.loads
                THEN Raised("FileNotFoundError", "No such file or directory")
                ELSE IF ResolveCandidate(module) = "None"
                THEN Raised("ValueError", "No function found in module")
                ELSE Returned(IntV(0))
       IN  IF e.raised
           THEN /\ pc' = "done"
                /\ result' = LoadFailureResult(e, tests)
                /\ UNCHANGED candidate
           ELSE /\ pc' = "loop"
                /\ candidate' = ResolveCandidate(module)
                /\ UNCHANGED result
    /\ UNCHANGED <<runner, module, tests, i, passed, failed, shown, context>>
    /\ UNCHANGED <<callerVars, enhancerVars, analyzerVars, dirVars, normVars, problem_id>>

\* run_tests up to its loop: loading is not guarded, and a module without a
\* public function leaves candidate None.
LoadNotebook ==
    /\ pc = "load" /\ runner = "notebook"
    /\ IF ~module.loads
       THEN pc' = "raised" /\ UNCHANGED candidate
       ELSE pc' = "loop" /\ candidate' = ResolveCandidate(module)
    /\ UNCHANGED <<runner, module, tests, i, passed, failed, shown, result, context>>
    /\ UNCHANGED <<callerVars, enhancerVars, analyzerVars, dirVars, normVars, problem_id>>

\* TestGlobals handing the dictionary of the previous exec to the next one
TestGlobals_Shared ==
    IF context.exists THEN context ELSE [exists |-> TRUE, candidate |-> candidate]

\* The globals dictionary an iteration hands to exec: {'candidate': candidate},
\* a new dictionary made of the local variable candidate
TestGlobals == [exists |-> TRUE, candidate |-> candidate]

\* RunTest running a test case that failed a second time before it moves on
RunTest_Retry ==
    /\ pc = "loop" /\ i < Len(tests)
    /\ context' = GlobalsAfter(TestCode(tests[i + 1]), TestGlobals.candidate)
    /\ LET step == IF runner = "report"
                   THEN ReportIteration(tests[i + 1], TestGlobals.candidate)
                   ELSE NotebookIteration(tests[i + 1], TestGlobals.candidate)
           retried == \E j \in 1..Len(failed) : failed[j][1] = i
       IN  CASE step.kind = "passed" ->
                  /\ passed' = Append(passed, i)
                  /\ shown' = IF runner = "report"
                              THEN Append(shown, <<i, step.line>>) ELSE shown
                  /\ i' = i + 1
                  /\ UNCHANGED <<failed, pc>>
             [] step.kind = "failed" ->
                  /\ failed' = Append(failed, <<i, step.reason>>)
                  /\ i' = IF retried THEN i + 1 ELSE i
                  /\ UNCHANGED <<passed, shown, pc>>
             [] OTHER ->
                  /\ pc' = "raised"
                  /\ UNCHANGED <<passed, failed, shown, i>>
    /\ UNCHANGED <<runner, module, tests, candidate, result>>
    /\ UNCHANGED <<callerVars, enhancerVars, analyzerVars, dirVars, normVars, problem_id>>

\* One iteration of the for loop, over test_cases[i]
RunTest ==
    /\ pc = "loop" /\ i < Len(tests)
    /\ context' = GlobalsAfter(TestCode(tests[i + 1]), TestGlobals.candidate)
    /\ LET step == IF runner = "report"
                   THEN ReportIteration(tests[i + 1], TestGlobals.candidate)
                   ELSE NotebookIteration(tests[i + 1], TestGlobals.candidate)
       IN  CASE step.kind = "passed" ->
                  /\ passed' = Append(passed, i)
                  /\ shown' = IF runner = "report"
                              THEN Append(shown, <<i, step.line>>) ELSE shown
                  /\ i' = i + 1
                  /\ UNCHANGED <<failed, pc>>
             [] step.kind = "failed" ->
                  /\ failed' = Append(failed, <<i, step.reason>>)
                  /\ i' = i + 1
                  /\ UNCHANGED <<passed, shown, pc>>
             [] OTHER ->
                  /\ pc' = "raised"
                  /\ UNCHANGED <<passed, failed, shown, i>>
    /\ UNCHANGED <<runner, module, tests, candidate, result>>
    /\ UNCHANGED <<callerVars, enhancerVars, analyzerVars, dirVars, normVars, problem_id>>

\* The loop is over: compute pass_rate and return the dictionary
Return ==
    /\ pc = "loop" /\ i = Len(tests)
    /\ pc' = "done"
    /\ result' = IF runner = "report"
                 THEN ReportResult(passed, failed, tests)
                 ELSE NotebookResult(passed, failed, tests)
    /\ UNCHANGED <<runner, module, tests, candidate, i, passed, failed, shown, context>>
    /\ UNCHANGED <<callerVars, enhancerVars, analyzerVars, dirVars, normVars, problem_id>>

Next == LoadReport \/ LoadNotebook \/ RunTest \/ Return

Spec == Init /\ [][Next]_vars

----------------------------------------------------------------------------
(* Properties of run_tests_and_report and run_tests *)

\* The indices recorded in the list passed, and in the list failed
PassedIndices(r) == {r.passed[k] : k \in 1..Len(r.passed)}
FailedIndices(r) == {r.failed[k][1] : k \in 1..Len(r.failed)}

\* The indices of a list are strictly increasing
Increasing(idx) == \A a, b \in 1..Len(idx) : a < b => idx[a] < idx[b]

\* run_tests_and_report took its load-failure return
LoadFailed ==
    runner = "report" /\ (~module.loads \/ ResolveCandidate(module) = "None")

\* The test with index k (0-based) of the run, as executed
CodeOf(k) == TestCode(tests[k + 1])

\* The reason recorded for index k in the list failed
ReasonOf(k) ==
    LET at == {j \in 1..Len(failed) : failed[j][1] = k}
    IN  failed[CHOOSE j \in at : TRUE][2]

\* The test code has the form  assert candidate(args) == expected
IsEqualityForm(code) ==
    LET ts == Tokens(code)
        eqs == {k \in 1..Len(ts) : ts[k] = "=="}
    IN  /\ Cardinality(eqs) = 1
        /\ Len(ts) >= 6
        /\ ts[1] = "assert" /\ ts[2] = "candidate" /\ ts[3] = "("
        /\ ts[Min(eqs) - 1] = ")"
        /\ Min(eqs) < Len(ts)

\* The text right of "==", and the arguments written in the call
RightOfEq(code) ==
    LET eqs == {k \in 1..Len(code) : code[k] = "=="}
    IN  Strip(SubSeq(code, Min(eqs) + 1, Len(code)))

WrittenArgs(code) ==
    LET ts == Tokens(code)
        eqs == {k \in 1..Len(ts) : ts[k] = "=="}
    IN  ArgValues(SubSeq(ts, 4, Min(eqs) - 2))

C1_WitnessLoadFailure ==
    /\ result.returned /\ ~module.loads
    /\ Len(tests) = 2 /\ Len(result.failed) = 2

\* C2: without a function named 'candidate', the function bound for the
\* tests is the first one in declaration order whose name does not start
\* with '_' ([foo, _helper, bar] binds foo).
C2_FallbackFirstDeclared ==
    (pc = "loop" /\ ~HasCandidate(module)) =>
        candidate = FirstPublic(module.decls)

\* C5: when the loaded file has no 'candidate' and no public function, no
\* test is run or passed, every index is recorded as failed with one and the
\* same message, and pass_rate is 0.
C5_ResolutionFailure ==
    (module.loads /\ ResolveCandidate(module) = "None") =>
        /\ passed = <<>>
        /\ pc # "raised"
        /\ result.returned =>
              /\ result.passed = <<>>
              /\ FailedIndices(result) = 0..(Len(tests) - 1)
              /\ \A a, b \in 1..Len(result.failed) :
                    result.failed[a][2] = result.failed[b][2]
              /\ result.pass_rate.num = 0

\* C6: a test whose assertion raises nothing is in 'passed' and not in
\* 'failed'; run_tests_and_report prints for a test of the form
\* candidate(args) == expected the text right of "==" as the expected value.
C6_PassedWithExpected ==
    \A k \in 0..(i - 1) :
        ~Exec(CodeOf(k), candidate).raised =>
            /\ k \in Range(passed)
            /\ k \notin {failed[j][1] : j \in 1..Len(failed)}
            /\ (runner = "report" /\ IsEqualityForm(CodeOf(k))) =>
                  <<k, <<"PASSED - Expected: ">> \o RightOfEq(CodeOf(k))>> \in Range(shown)

C6_Witness ==
    /\ runner = "report" /\ candidate = "candidate" /\ i >= 1
    /\ tests[1] = <<"candidate", "(", "3", ")", " ", "==", " ", "9">>
    /\ passed[1] = 0
    /\ shown[1] = <<0, <<"PASSED - Expected: ", "9">>>>

\* C7: a test of the form candidate(args) == expected whose assertion fails
\* is recorded in 'failed' with the expected text and the value the bound
\* function returns for the arguments written in the test, whatever the
\* number of arguments.
C7_FailedReportsActual ==
    \A k \in 0..(i - 1) :
        (/\ runner = "report"
         /\ IsEqualityForm(CodeOf(k))
         /\ IsAssertionError(Exec(CodeOf(k), candidate))) =>
            /\ k \in {failed[j][1] : j \in 1..Len(failed)}
            /\ ReasonOf(k) =
                  <<"Expected: ">> \o RightOfEq(CodeOf(k)) \o <<", Got: ">>
                  \o Repr(Call(candidate, WrittenArgs(CodeOf(k))).value)

\* C8: in run_tests_and_report a test whose execution raises an error other
\* than AssertionError is not in 'passed' and is recorded once in 'failed'
\* with the reason "Error: <type>: <message>".
C8_ErroredWithKind ==
    \A k \in 0..(i - 1) :
        LET o == Exec(CodeOf(k), candidate)
        IN  (runner = "report" /\ IsException(o) /\ ~IsAssertionError(o)) =>
                /\ k \notin Range(passed)
                /\ Cardinality({j \in 1..Len(failed) : failed[j][1] = k}) = 1
                /\ ReasonOf(k) = <<"Error: ", o.type, ": ">> \o Str(o)

C8_Witness ==
    /\ runner = "report" /\ candidate = "foo" /\ i >= 1
    /\ tests[1] = <<"candidate", "(", "0", ")", " ", "==", " ", "0">>
    /\ failed[1] = <<0, <<"Error: ", "ZeroDivisionError", ": ",
                          "integer division or modulo by zero">>>>

\* The second call of the AssertionError handler, candidate(eval(input_val)),
\* for a test code the pattern matches
Rederived(code, cand) ==
    LET arg == Eval(ReSearch(code).group1)
    IN  IF arg.raised THEN arg ELSE Call(cand, <<arg.value>>)

\* A test of run_tests_and_report whose assertion fails and whose actual
\* value cannot be derived again, because the second call raises an error
RederivationFails(code, cand) ==
    /\ IsAssertionError(Exec(code, cand))
    /\ ReSearch(code).matched
    /\ IsException(Rederived(code, cand))

\* C9: when the assertion fails and deriving the actual value again raises,
\* the test is recorded once, in 'failed', with the reason "Assertion failed:
\* <message>", and the loop goes on (the exception does not leave it).
C9_RederivationFallback ==
    /\ \A k \in 0..(i - 1) :
          (runner = "report" /\ RederivationFails(CodeOf(k), candidate)) =>
              /\ k \notin Range(passed)
              /\ Cardinality({j \in 1..Len(failed) : failed[j][1] = k}) = 1
              /\ ReasonOf(k) =
                    <<"Assertion failed: ">> \o Str(Rederived(CodeOf(k), candidate))
    /\ (pc = "raised" /\ runner = "report" /\ i < Len(tests)) =>
          ~RederivationFails(CodeOf(i), candidate)

C9_Witness ==
    /\ runner = "report" /\ candidate = "bar" /\ i >= 1
    /\ tests[1] = <<"candidate", "(", "1", ",", " ", "2", ")", " ", "==", " ", "4">>
    /\ failed[1] = <<0, <<"Assertion failed: ",
                          "missing or unexpected positional argument">>>>

\* C11: whatever a test case raises while it is executed is caught and
\* recorded for that test case: no exception of a test leaves the runner
\* (only loading can), and a runner that reached its loop returns after
\* having executed every test case.
C11_EvaluationErrorContained ==
    /\ pc = "raised" => ~module.loads
    /\ (result.returned /\ ~LoadFailed) => i = Len(tests)

C12_LoadErrorAbortsArtifactOnly ==
    ~module.loads =>
        /\ pc # "raised"
        /\ result.returned =>
              /\ result.passed = <<>>
              /\ Len(result.failed) = Len(tests)
              /\ FailedIndices(result) = 0..(Len(tests) - 1)
              /\ \A a \in 1..Len(result.failed) :
                    result.failed[a][2] = result.failed[1][2]

----------------------------------------------------------------------------
(* A caller that runs the same entry point twice, on the same code file    *)
(* and the same test cases, some of which rebind the name candidate        *)

\* The test strings of these runs:
\*   "(candidate := None) is None"    "candidate(3) == 9"    "candidate(0) == 0"
RerunTestStrings ==
    { RebindingTest,
      <<"candidate", "(", "3", ")", " ", "==", " ", "9">>,
      <<"candidate", "(", "0", ")", " ", "==", " ", "0">> }

RerunTestLists == SeqsUpTo(RerunTestStrings, MaxTests)

InitRerun ==
    /\ EnhancerIdle /\ AnalyzerIdle /\ problem_id = ""
    /\ CallerIdle /\ DirsIdle /\ NormIdle
    /\ runner \in {"report", "notebook"}
    /\ module \in Modules
    /\ tests \in RerunTestLists
    /\ pc = "load" /\ candidate = "None" /\ i = 0
    /\ passed = <<>> /\ failed = <<>> /\ shown = <<>>
    /\ result = NoResult /\ context = NoContext

\* The caller keeps what the first call returned and calls the entry point
\* again with the same arguments: the locals of the new call are fresh.
CallAgain ==
    /\ pc = "done" /\ run = 1
    /\ run' = 2
    /\ first_result' = result
    /\ pc' = "load" /\ candidate' = "None" /\ i' = 0
    /\ passed' = <<>> /\ failed' = <<>> /\ shown' = <<>>
    /\ result' = NoResult /\ context' = NoContext
    /\ UNCHANGED <<runner, module, tests, reported>>
    /\ UNCHANGED <<enhancerVars, analyzerVars, dirVars, normVars, problem_id>>

NextRerun == LoadReport \/ LoadNotebook \/ RunTest \/ Return \/ CallAgain

SpecRerun == InitRerun /\ [][NextRerun]_vars

\* C14: every test case is executed in a context made anew of the function
\* the runner resolved: a test that rebinds 'candidate' changes neither the
\* runner's own binding nor what a later test sees, so every test that has
\* run is in 'passed' exactly when it succeeds with the resolved function.
C14_FreshContextPerTest ==
    pc # "load" =>
        /\ candidate = ResolveCandidate(module)
        /\ \A k \in 0..(i - 1) :
              k \in Range(passed) <=>
                 ~Exec(CodeOf(k), ResolveCandidate(module)).raised

\* the first test has rebound candidate to None, the second has called the
\* resolved function and passed
C14_Witness ==
    /\ candidate = "candidate" /\ i = 2
    /\ tests[1] = RebindingTest
    /\ tests[2] = <<"candidate", "(", "3", ")", " ", "==", " ", "9">>
    /\ passed = <<0, 1>>
    /\ context.candidate = "candidate"

----------------------------------------------------------------------------
(* A caller that prints the detailed report of what run_tests_and_report   *)
(* returned, as the example usage of test_runner.py does                   *)

\* result[key] of a returned dictionary: KeyError when the key is missing
HasKey(r, key) == key \in DOMAIN r

\* print_detailed_report(result): "printed", or the exception it raises
PrintDetailedReport(r) ==
    IF r.passed # <<>> /\ ~HasKey(r, "passed_tests") THEN "KeyError"
    ELSE IF r.failed # <<>> /\ ~HasKey(r, "failed_tests") THEN "KeyError"
    ELSE "printed"

InitReport ==
    /\ EnhancerIdle /\ AnalyzerIdle /\ problem_id = ""
    /\ CallerIdle /\ DirsIdle /\ NormIdle
    /\ runner = "report"
    /\ module \in Modules
    /\ tests \in TestLists
    /\ pc = "load" /\ candidate = "None" /\ i = 0
    /\ passed = <<>> /\ failed = <<>> /\ shown = <<>>
    /\ result = NoResult /\ context = NoContext

\* result = run_tests_and_report(code_file, test_cases) has returned:
\* print_detailed_report(result)
ReportResultStep ==
    /\ pc = "done" /\ reported = "no"
    /\ reported' = PrintDetailedReport(result)
    /\ UNCHANGED <<runnerVars, run, first_result>>
    /\ UNCHANGED <<enhancerVars, analyzerVars, dirVars, normVars, problem_id>>

NextReport == LoadReport \/ RunTest \/ Return \/ ReportResultStep

SpecReport == InitReport /\ [][NextReport]_vars

\* C21: every record run_tests_and_report returns can be printed by
\* print_detailed_report: when 'passed' or 'failed' is not empty the record
\* has the key 'passed_tests' or 'failed_tests' that is read, so the report
\* never fails.
C21_ResultCanBeReported ==
    /\ reported # "KeyError"
    /\ result.returned =>
          /\ result.passed # <<>> => HasKey(result, "passed_tests")
          /\ result.failed # <<>> => HasKey(result, "failed_tests")

----------------------------------------------------------------------------
(* code_enhancer.py: CodeEnhancer.get_function_info and enhance_file *)

\* The names of the function definitions that do not start with '_'
PublicFunctions(content) ==
    SelectSeq(FunctionDefs(content), LAMBDA n : ~StartsWithUnderscore(n))

\* get_function_info: [primary, aliases]; primary "None" and no aliases when
\* the file does not parse or defines no public function.
GetFunctionInfo(content, pid) ==
    LET function_names == PublicFunctions(content)
        primary_func == function_names[1]
    IN  IF ~content.parses \/ function_names = <<>>
        THEN [primary |-> "None", aliases |-> <<>>]
        ELSE [primary |-> primary_func,
              aliases |->
                 (IF primary_func # "candidate" THEN <<"candidate">> ELSE <<>>)
                 \o (IF pid = "HumanEval/94" /\ primary_func # "skjkasdkd"
                     THEN <<"skjkasdkd">> ELSE <<>>)]

\* enhance_file: [written, returned]: the content of the target file and
\* the value returned.
EnhanceFile(content, pid) ==
    LET info == GetFunctionInfo(content, pid)
        needed_aliases == SelectSeq(info.aliases, LAMBDA a : ~InContent(a, content))
    IN  IF info.primary = "None" \/ info.aliases = <<>> \/ needed_aliases = <<>>
        THEN [written |-> content, returned |-> "False"]
        ELSE [written |->
                 [content EXCEPT !.aliases =
                     [k \in 1..Len(needed_aliases) |-> <<needed_aliases[k], info.primary>>]],
              returned |-> "True"]

\* enhance_file(source_path, target_path, problem_id)
EnhanceFileStep ==
    /\ source # NoFile /\ was_enhanced = "pending"
    /\ target' = EnhanceFile(source, problem_id).written
    /\ was_enhanced' = EnhanceFile(source, problem_id).returned
    /\ UNCHANGED <<runnerVars, callerVars, dirVars, normVars, analyzerVars, source,
                   problem_id>>

InitEnhancer ==
    /\ RunnerIdle /\ AnalyzerIdle /\ CallerIdle /\ DirsIdle /\ NormIdle
    /\ source \in SourceFiles
    /\ problem_id \in ProblemIds
    /\ target = NoFile
    /\ was_enhanced = "pending"

NextEnhancer == EnhanceFileStep

SpecEnhancer == InitEnhancer /\ [][NextEnhancer]_vars

\* C4: for HumanEval/94, when a primary function is found and is not named
\* 'skjkasdkd', the written file binds the name 'skjkasdkd' to it.
C4_AliasFor94 ==
    (/\ was_enhanced # "pending"
     /\ problem_id = "HumanEval/94"
     /\ GetFunctionInfo(source, problem_id).primary \notin {"None", "skjkasdkd"}) =>
        Binding(target, "skjkasdkd") = GetFunctionInfo(source, problem_id).primary

\* C18: for every source file that declares a function whose name does not
\* start with '_' and none named 'candidate', the file written to the target
\* path binds the name 'candidate' to the primary function, whatever other
\* text the source contains.
C18_CandidateReachable ==
    (/\ was_enhanced # "pending"
     /\ source.parses
     /\ PublicFunctions(source) # <<>>
     /\ "candidate" \notin Range(source.decls)) =>
        /\ target # NoFile
        /\ Binding(target, "candidate") = PublicFunctions(source)[1]

----------------------------------------------------------------------------
(* pytest_cov_enhanced_analyzer.py: one solution *)

\* 'def skjkasdkd' in content
DefinesSkjkasdkd(content) == "skjkasdkd" \in Range(content.decls)

\* get_function_name
GetFunctionName(content, pid) ==
    IF pid = "HumanEval/94" /\ DefinesSkjkasdkd(content) THEN "skjkasdkd"
    ELSE IF ~content.parses \/ PublicFunctions(content) = <<>> THEN "candidate"
    ELSE PublicFunctions(content)[1]

\* create_pytest_test_file: the generated module. Importing it imports
\* func_name from the solution (ImportError leaves it None; a solution that
\* does not parse makes the import raise SyntaxError, and the module is not
\* collected), binds candidate and skjkasdkd to it, and defines one test
\* function per test case.
CreatePytestTestFile(content, test_cases, pid) ==
    LET func_name == GetFunctionName(content, pid)
        imported == Binding(content, func_name)
    IN  [created    |-> TRUE,
         collected  |-> content.parses,
         func_name  |-> func_name,
         candidate  |-> imported,
         skjkasdkd  |-> imported,
         test_codes |-> [k \in 1..Len(test_cases) |-> TestCode(test_cases[k])]]

\* How the run of pytest ends: it completes, exceeds timeout=30, or
\* subprocess.run raises another exception.
Paths == {"normal", "timeout", "error"}

\* What pytest prints: the numbers before "passed" and "failed" in its
\* summary (0 when the word is not printed: pytest prints no zero count),
\* and whether the text "passed" occurs in the output at all. A test
\* function fails when its assertion raises anything; a module that is not
\* collected reports an error and neither count.
PytestOutput(gen) ==
    LET ok == {k \in 1..Len(gen.test_codes) :
                  ~Exec(gen.test_codes[k], gen.candidate).raised}
    IN  IF ~gen.collected
        THEN [passed |-> 0, failed |-> 0, says_passed |-> FALSE]
        ELSE [passed |-> Cardinality(ok),
              failed |-> Len(gen.test_codes) - Cardinality(ok),
              says_passed |-> Cardinality(ok) > 0]

\* ParseTestCounts without the branch for output that has neither count
ParseTestCounts_NoFallback(output, total_tests) ==
    <<output.passed, output.failed>>

\* _parse_test_counts: <<passed, failed>>
ParseTestCounts(output, total_tests) ==
    IF output.passed = 0 /\ output.failed = 0
    THEN IF output.says_passed THEN <<total_tests, 0>> ELSE <<0, total_tests>>
    ELSE <<output.passed, output.failed>>

\* The CoverageResult run_pytest_with_coverage returns
CoverageResult(pid, tests_passed, tests_failed, total_tests, error_details) ==
    [problem_id    |-> pid,
     tests_passed  |-> tests_passed,
     tests_failed  |-> tests_failed,
     total_tests   |-> total_tests,
     error_details |-> error_details]

\* PytestResult reporting, on a timeout, the tests that would have passed as
\* passed: a partial report
PytestResult_PartialOnTimeout(gen, test_cases, pid, path) ==
    LET counts == ParseTestCounts(PytestOutput(gen), Len(test_cases))
    IN  CASE path = "normal" ->
                CoverageResult(pid, counts[1], counts[2], Len(test_cases), <<>>)
          [] path = "timeout" ->
                CoverageResult(pid, counts[1], counts[2], Len(test_cases), <<"Timeout">>)
          [] OTHER ->
                CoverageResult(pid, 0, Len(test_cases), Len(test_cases), <<"error">>)

\* run_pytest_with_coverage after the test file is created
PytestResult(gen, test_cases, pid, path) ==
    LET counts == ParseTestCounts(PytestOutput(gen), Len(test_cases))
    IN  CASE path = "normal" ->
                CoverageResult(pid, counts[1], counts[2], Len(test_cases), <<>>)
          [] path = "timeout" ->
                CoverageResult(pid, 0, Len(test_cases), Len(test_cases), <<"Timeout">>)
          [] OTHER ->
                CoverageResult(pid, 0, Len(test_cases), Len(test_cases), <<"error">>)

\* run_pytest_with_coverage
RunPytestWithCoverage(content, test_cases, pid, path) ==
    PytestResult(CreatePytestTestFile(content, test_cases, pid), test_cases, pid, path)

\* The solution files the analyzer reads
AnalyzerFiles == {f \in SourceFiles : f.text = {}}

\* The values of the argument llm_implementation: its default, and the name
\* analyze_all_solutions passes
LlmImplementations == {"", "gemma_self_edit"}

\* temp_dir once it is made: whether it holds the generated test file, and
\* htmlcov, the HTML report of pytest
TempDir(test_file, htmlcov) ==
    [exists |-> TRUE, test_file |-> test_file, htmlcov |-> htmlcov]

\* os.path.join(llm_implementation, f"HumanEval_{problem_num}"): the place of
\* a report under html_output_dir
ReportEntry(llm, pid) ==
    CASE llm = "gemma_self_edit" /\ pid = "HumanEval/1" -> "gemma_self_edit/HumanEval_1"
      [] llm = "gemma_self_edit" -> "gemma_self_edit/HumanEval_94"
      [] pid = "HumanEval/1" -> "HumanEval_1"
      [] OTHER -> "HumanEval_94"

\* _save_html_report: the html output directory after copytree of
\* temp_dir/htmlcov to the place of the report, which replaces what is
\* there; when the source is gone copytree raises, which is caught.
CopyHtmlReport(out, temp, llm, pid) ==
    IF temp.exists /\ temp.htmlcov
    THEN ReportDir((IF out.exists THEN out.entries ELSE {}) \cup {ReportEntry(llm, pid)})
    ELSE out

\* shutil.rmtree(temp_dir)
RemoveTemp(temp) == NoDir

\* FinishRun removing temp_dir before the report is saved
FinishRun_RemoveFirst(out, temp, llm, pid, path) ==
    LET removed == RemoveTemp(temp)
        saved == IF path = "normal" /\ llm # "" /\ temp.htmlcov
                 THEN CopyHtmlReport(out, removed, llm, pid)
                 ELSE out
    IN  [html_output_dir |-> saved, temp_dir |-> removed]

\* run_pytest_with_coverage once pytest has ended, temp being temp_dir as
\* pytest left it: on the normal path the report is saved when
\* llm_implementation is given and htmlcov exists; the finally clause
\* removes temp_dir on every path.
FinishRun(out, temp, llm, pid, path) ==
    LET saved == IF path = "normal" /\ llm # "" /\ temp.htmlcov
                 THEN CopyHtmlReport(out, temp, llm, pid)
                 ELSE out
        removed == RemoveTemp(temp)
    IN  [html_output_dir |-> saved, temp_dir |-> removed]

\* The analyzer has been constructed: html_output_dir exists and is empty.
InitAnalyzer ==
    /\ EnhancerIdle /\ CallerIdle /\ NormIdle
    /\ source_dir = NoDir /\ target_dir = NoDir
    /\ html_output_dir = ReportDir({})
    /\ dir_runs = [enhance |-> 0, construct |-> 1]
    /\ enhancements_made = <<>> /\ summary = [made |-> FALSE]
    /\ llm_implementation = "" /\ temp_dir = NoDir /\ html_written = FALSE
    /\ runner = "report" /\ module = BrokenModule
    /\ pc = "idle" /\ candidate = "None" /\ i = 0
    /\ passed = <<>> /\ failed = <<>> /\ shown = <<>> /\ result = NoResult
    /\ context = NoContext /\ ended = ""
    /\ tests \in TestLists
    /\ solution \in AnalyzerFiles
    /\ problem_id \in ProblemIds
    /\ generated = [created |-> FALSE]
    /\ all_results = <<>> /\ next_problem = 1 /\ stats = [computed |-> FALSE]

\* run_pytest_with_coverage, up to the call of pytest: mkdtemp, then the
\* test file is written into temp_dir
CreateTestFile ==
    /\ solution # NoFile /\ ~generated.created
    /\ \E llm \in LlmImplementations : llm_implementation' = llm
    /\ temp_dir' = TempDir(TRUE, FALSE)
    /\ generated' = CreatePytestTestFile(solution, tests, problem_id)
    /\ UNCHANGED <<runnerVars, callerVars, dirVars, normVars, enhancerVars, solution,
                   problem_id, all_results, next_problem, stats, ended, html_written>>

\* run_pytest_with_coverage, from the call of pytest to the return; the
\* caller appends the result.
RunPytest ==
    /\ generated.created /\ all_results = <<>>
    /\ \E path \in Paths, wrote \in BOOLEAN :
          LET finish == FinishRun(html_output_dir, TempDir(temp_dir.test_file, wrote),
                                  llm_implementation, problem_id, path)
          IN  /\ all_results' = <<PytestResult(generated, tests, problem_id, path)>>
              /\ ended' = path
              /\ html_written' = wrote
              /\ html_output_dir' = finish.html_output_dir
              /\ temp_dir' = finish.temp_dir
    /\ UNCHANGED <<runnerVars, callerVars, normVars, enhancerVars, solution,
                   problem_id, generated, next_problem, stats, llm_implementation,
                   source_dir, target_dir, dir_runs, instanceVars>>

NextAnalyzer == CreateTestFile \/ RunPytest

SpecAnalyzer == InitAnalyzer /\ [][NextAnalyzer]_vars

\* C3: when the solution defines a function named 'candidate', the name
\* 'candidate' of the generated pytest module is bound to that function.
C3_CandidateBoundDirectly ==
    (/\ generated.created
     /\ solution.parses
     /\ "candidate" \in Range(solution.decls)) =>
        generated.candidate = "candidate"

C22_CountsAddUp ==
    ended # "" =>
        /\ Len(all_results) = 1
        /\ all_results[1].total_tests = Len(tests)
        /\ all_results[1].tests_passed + all_results[1].tests_failed
              = all_results[1].total_tests
        /\ all_results[1].tests_passed \in 0..all_results[1].total_tests
        /\ all_results[1].tests_failed \in 0..all_results[1].total_tests

\* pytest completed and its summary had both counts: one passed, one failed
C22_Witness ==
    /\ ended = "normal"
    /\ generated.collected
    /\ Len(tests) = 2
    /\ all_results[1].tests_passed = 1
    /\ all_results[1].tests_failed = 1

C17_AliasesAreCallable ==
    (generated.created /\ solution.parses) =>
        /\ generated.candidate # "None"
        /\ generated.skjkasdkd # "None"
        /\ generated.candidate = generated.func_name
        /\ generated.skjkasdkd = generated.func_name

----------------------------------------------------------------------------
(* pytest_cov_enhanced_analyzer.py: analyze_all_solutions and main *)

\* sorted(self.test_cases.items()): the problems in the order of their ids
SortedProblems == <<"HumanEval/1", "HumanEval/94">>

\* The results run_pytest_with_coverage can return for a problem
ResultsFor ==
    [pid \in ProblemIds |->
        {RunPytestWithCoverage(f, ts, pid, path) :
            f \in AnalyzerFiles, ts \in TestLists, path \in Paths}]

InitMain ==
    /\ RunnerIdle /\ EnhancerIdle /\ AnalyzerIdle /\ problem_id = ""
    /\ CallerIdle /\ DirsIdle /\ NormIdle

\* One iteration of the loop over the problems whose solution file exists
AnalyzeNext ==
    /\ next_problem <= Len(SortedProblems)
    /\ \E r \in ResultsFor[SortedProblems[next_problem]] :
          all_results' = Append(all_results, r)
    /\ next_problem' = next_problem + 1
    /\ problem_id' = SortedProblems[next_problem]
    /\ UNCHANGED <<runnerVars, callerVars, dirVars, normVars, enhancerVars, solution,
                   generated, stats, ended, tempVars>>

\* One iteration for a problem without a solution file: "File not found"
SkipMissing ==
    /\ next_problem <= Len(SortedProblems)
    /\ next_problem' = next_problem + 1
    /\ problem_id' = SortedProblems[next_problem]
    /\ UNCHANGED <<runnerVars, callerVars, dirVars, normVars, enhancerVars, solution,
                   generated, all_results, stats, ended, tempVars>>

\* main after generate_reports: the overall statistics
MainStatistics ==
    /\ next_problem > Len(SortedProblems) /\ ~stats.computed
    /\ LET total_tests == Sum([k \in 1..Len(all_results) |-> all_results[k].total_tests])
           total_passed == Sum([k \in 1..Len(all_results) |-> all_results[k].tests_passed])
       IN  stats' =
              IF total_tests = 0
              THEN [computed |-> TRUE, raised |-> "ZeroDivisionError",
                    total_tests |-> total_tests, total_passed |-> total_passed,
                    passed_percent |-> Quotient(0, 1)]
              ELSE [computed |-> TRUE, raised |-> "",
                    total_tests |-> total_tests, total_passed |-> total_passed,
                    passed_percent |-> Quotient(total_passed * 100, total_tests)]
    /\ UNCHANGED <<runnerVars, callerVars, dirVars, normVars, enhancerVars, solution,
                   generated, all_results, next_problem, problem_id, ended, tempVars>>

NextMain == AnalyzeNext \/ SkipMissing \/ MainStatistics

SpecMain == InitMain /\ [][NextMain]_vars

\* C10: no aggregate computed from pass and total counts divides by a zero
\* total: the overall statistics of main are computed without a
\* ZeroDivisionError, and the percentage lies in [0, 100].
C10_NoDivisionByZeroTotal ==
    stats.computed =>
        /\ stats.raised # "ZeroDivisionError"
        /\ 0 <= stats.passed_percent.num
        /\ stats.passed_percent.num <= 100 * stats.passed_percent.den

----------------------------------------------------------------------------
(* The normalization of one test string, by run_tests_and_report, run_tests *)
(* and create_pytest_test_file alike                                        *)

\* The test strings normalized: up to MaxTokens tokens, blanks among them
NormTokens == {" ", "assert", "candidate", "1"}

NormStrings == SeqsUpTo(NormTokens, MaxTokens)

InitNormalize ==
    /\ RunnerIdle /\ CallerIdle /\ EnhancerIdle /\ AnalyzerIdle /\ DirsIdle
    /\ problem_id = ""
    /\ test_string \in NormStrings
    /\ normal_form = NoText
    /\ renormalized = NoText

\* test_code = test_case.strip(); if not test_code.startswith('assert'): ...
NormalizeTestCase ==
    /\ normal_form = NoText
    /\ normal_form' = TestCode(test_string)
    /\ UNCHANGED <<runnerVars, callerVars, enhancerVars, analyzerVars, dirVars,
                   problem_id, test_string, renormalized>>

\* the same statements, given the test code as the test case
NormalizeAgain ==
    /\ normal_form # NoText /\ renormalized = NoText
    /\ renormalized' = TestCode(normal_form)
    /\ UNCHANGED <<runnerVars, callerVars, enhancerVars, analyzerVars, dirVars,
                   problem_id, test_string, normal_form>>

NextNormalize == NormalizeTestCase \/ NormalizeAgain

SpecNormalize == InitNormalize /\ [][NextNormalize]_vars

\* t is s without the blanks at its two ends
IsTrimOf(t, s) ==
    \E a \in 0..Len(s), b \in 0..Len(s) :
        /\ a + b <= Len(s)
        /\ t = SubSeq(s, a + 1, Len(s) - b)
        /\ \A k \in 1..a : s[k] = " "
        /\ \A k \in (Len(s) - b + 1)..Len(s) : s[k] = " "
        /\ t # <<>> => (t[1] # " " /\ t[Len(t)] # " ")

\* code is what the rule makes of the test string s: s trimmed, unchanged
\* when that starts with assert, and "assert " followed by it otherwise
FollowsRule(code, s) ==
    \E t \in SeqsUpTo(NormTokens, Len(s)) :
        /\ IsTrimOf(t, s)
        /\ IF t # <<>> /\ t[1] = "assert"
           THEN code = t
           ELSE code = <<"assert", " ">> \o t

\* trimming the test string leaves nothing
IsBlank(s) == \A k \in 1..Len(s) : s[k] = " "

\* C16: the test code is the trimmed test string, unchanged when that
\* starts with assert and "assert " followed by it otherwise, and
\* normalizing the test code again changes nothing.
C16_Normalization ==
    /\ normal_form # NoText => FollowsRule(normal_form, test_string)
    /\ renormalized # NoText => renormalized = normal_form

\* C16 as amended: the test code follows the rule for every test string,
\* and normalizing it again changes nothing unless the test string is empty
\* or blank, whose test code "assert " becomes "assert".
C16_NormalizationExceptBlank ==
    /\ normal_form # NoText => FollowsRule(normal_form, test_string)
    /\ renormalized # NoText =>
          IF IsBlank(test_string)
          THEN normal_form = <<"assert", " ">> /\ renormalized = <<"assert">>
          ELSE renormalized = normal_form

\* " 1 " has been normalized to "assert 1", twice
C16_Witness ==
    /\ test_string = <<" ", "1", " ">>
    /\ normal_form = <<"assert", " ", "1">>
    /\ renormalized = <<"assert", " ", "1">>

----------------------------------------------------------------------------
(* The output directories: target_dir of CodeEnhancer.enhance_all_codes and *)
(* html_output_dir of PytestCovAnalyzer                                     *)

\* The problems a directory may hold a file HumanEval_<n>.py for; the
\* source directory has none for HumanEval/7, whose solution was removed.
DirProblems == ProblemIds \cup {"HumanEval/7"}

\* The contents of the files of source_dir, and of a file left in
\* target_dir by an earlier run
DirFiles ==
    { File(TRUE, <<"foo">>, {}, <<>>),
      File(TRUE, <<"candidate">>, {}, <<>>),
      File(FALSE, <<>>, {}, <<>>) }

StaleFile == File(TRUE, <<"bar">>, {}, <<>>)

\* The reports html_output_dir may hold: <llm_implementation>/HumanEval_<n>
HtmlEntries == {"gemma_self_edit/HumanEval_1", "gemma_self_edit/HumanEval_94"}

EmptyDir == CodeDir([p \in DirProblems |-> NoFile])

\* sorted(os.listdir(source_impl_dir)): HumanEval_1.py, HumanEval_7.py,
\* HumanEval_94.py, as problem ids
SortedDirProblems == <<"HumanEval/1", "HumanEval/7", "HumanEval/94">>

\* The files the loop of enhance_all_codes processes, in its order
ProcessedFiles(src) ==
    SelectSeq(SortedDirProblems, LAMBDA p : src.files[p] # NoFile)

\* ... and those of them for which enhance_file returns True
EnhancedFiles(src) ==
    SelectSeq(ProcessedFiles(src),
              LAMBDA p : EnhanceFile(src.files[p], p).returned = "True")

\* self.enhancements_made after a call of enhance_all_codes: the loop
\* appends an entry for each enhanced file to the list __init__ created.
EnhancementsAfter(made, src) == made \o EnhancedFiles(src)

\* The counts a call of enhance_all_codes prints, and the list it returns
EnhancementSummary(made, src) ==
    LET total_files == Len(ProcessedFiles(src))
        enhanced_files == Len(EnhancedFiles(src))
    IN  [made |-> TRUE,
         total_files |-> total_files,
         enhanced_files |-> enhanced_files,
         copied_as_is |-> total_files - enhanced_files,
         returned |-> EnhancementsAfter(made, src)]

\* CleanDir without rmtree: os.makedirs(d, exist_ok=True) alone
CleanDir_KeepsContents(d, empty) == IF d.exists THEN d ELSE empty

\* if os.path.exists(d): shutil.rmtree(d)
\* os.makedirs(d)
\* The directory afterwards, empty being the empty directory of its kind.
CleanDir(d, empty) ==
    LET removed == IF d.exists THEN NoDir ELSE d
    IN  IF removed.exists THEN removed ELSE empty

\* The loop of enhance_all_codes over the files of the source directory:
\* enhance_file writes one file of the same name for each.
EnhanceInto(d, src) ==
    CodeDir([p \in DirProblems |->
            IF src.files[p] # NoFile
            THEN EnhanceFile(src.files[p], p).written
            ELSE d.files[p]])

InitDirs ==
    /\ RunnerIdle /\ CallerIdle /\ EnhancerIdle /\ AnalyzerIdle /\ NormIdle
    /\ problem_id = ""
    /\ source_dir \in
          {CodeDir(f) : f \in {g \in [DirProblems -> DirFiles \cup {NoFile}] :
                               g["HumanEval/7"] = NoFile}}
    /\ target_dir \in
          {NoDir} \cup {CodeDir(f) : f \in [DirProblems -> {NoFile, StaleFile}]}
    /\ html_output_dir \in {NoDir} \cup {ReportDir(e) : e \in SUBSET HtmlEntries}
    /\ dir_runs = [enhance |-> 0, construct |-> 0]
    /\ enhancements_made = <<>> /\ summary = [made |-> FALSE]

\* CodeEnhancer.enhance_all_codes
EnhanceAllCodes ==
    /\ source_dir.exists /\ dir_runs.enhance < MaxRuns
    /\ target_dir' = EnhanceInto(CleanDir(target_dir, EmptyDir), source_dir)
    /\ dir_runs' = [dir_runs EXCEPT !.enhance = @ + 1]
    /\ enhancements_made' = EnhancementsAfter(enhancements_made, source_dir)
    /\ summary' = EnhancementSummary(enhancements_made, source_dir)
    /\ UNCHANGED <<runnerVars, callerVars, enhancerVars, analyzerVars, normVars,
                   problem_id, source_dir, html_output_dir>>

\* PytestCovAnalyzer.__init__
ConstructAnalyzer ==
    /\ source_dir.exists /\ dir_runs.construct < MaxRuns
    /\ html_output_dir' = CleanDir(html_output_dir, ReportDir({}))
    /\ dir_runs' = [dir_runs EXCEPT !.construct = @ + 1]
    /\ UNCHANGED <<runnerVars, callerVars, enhancerVars, analyzerVars, normVars,
                   problem_id, source_dir, target_dir, instanceVars>>

\* PytestCovAnalyzer._save_html_report, of an analyzer that was constructed
SaveHtmlReport ==
    /\ dir_runs.construct >= 1 /\ html_output_dir.exists
    /\ \E e \in HtmlEntries :
          html_output_dir' = ReportDir(html_output_dir.entries \cup {e})
    /\ UNCHANGED <<runnerVars, callerVars, enhancerVars, analyzerVars, normVars,
                   problem_id, source_dir, target_dir, dir_runs, instanceVars>>

NextDirs == EnhanceAllCodes \/ ConstructAnalyzer \/ SaveHtmlReport

SpecDirs == InitDirs /\ [][NextDirs]_vars

\* C19: a run of enhance_all_codes leaves target_dir existing, with a file
\* exactly for every file of the source directory, made of that file, and
\* a run after another leaves it as the first did; constructing a
\* PytestCovAnalyzer leaves html_output_dir existing and empty.
C19_ClearAndRecreate ==
    [][ /\ dir_runs'.enhance # dir_runs.enhance =>
              /\ target_dir'.exists
              /\ \A p \in DirProblems :
                    IF source_dir.files[p] = NoFile
                    THEN target_dir'.files[p] = NoFile
                    ELSE /\ target_dir'.files[p] # NoFile
                         /\ target_dir'.files[p].decls = source_dir.files[p].decls
              /\ dir_runs.enhance >= 1 => target_dir' = target_dir
        /\ dir_runs'.construct # dir_runs.construct =>
              /\ html_output_dir'.exists
              /\ html_output_dir'.entries = {}
      ]_vars

\* both operations have run twice: target_dir holds the enhanced file of
\* HumanEval/1 and nothing for HumanEval/7, html_output_dir is empty
C19_Witness ==
    /\ dir_runs.enhance = 2 /\ dir_runs.construct = 2
    /\ source_dir.files["HumanEval/1"] = File(TRUE, <<"foo">>, {}, <<>>)
    /\ target_dir.files["HumanEval/1"].aliases = <<<<"candidate", "foo">>>>
    /\ target_dir.files["HumanEval/7"] = NoFile
    /\ html_output_dir.entries = {}

\* C24: whatever calls of enhance_all_codes came before on the instance, the
\* list a call returns has one entry per file enhanced during that call (its
\* length is that call's count of files enhanced), and the files processed
\* are the files enhanced plus the files copied as they are.
C24_ReturnedListPerCall ==
    summary.made =>
        /\ Len(summary.returned) = summary.enhanced_files
        /\ summary.returned = EnhancedFiles(source_dir)
        /\ summary.total_files = summary.enhanced_files + summary.copied_as_is

====
